---- MODULE Spec2Model ----
(***************************************************************************)
(* paswitch (src/paswitch-src/main.c): a command-line PulseAudio client    *)
(* that sets the default sink and rewrites the device of every             *)
(* stream-restore record.                                                  *)
(*                                                                         *)
(* The program is a set of callbacks run by the PulseAudio main loop.      *)
(* Each callback of main.c is an operator that maps the client-side state  *)
(* (a record s) to the state after the callback returned, calls made from  *)
(* the callback included.  The library and the server are the environment: *)
(* which event the loop delivers next, whether a request can be created,   *)
(* whether the server reports success, and when the connection fails are   *)
(* chosen nondeterministically.                                            *)
(*                                                                         *)
(* Environment behaviour assumed (libpulse API as called by main.c):       *)
(*  - pa_context_disconnect() on a live context moves it to TERMINATED and *)
(*    runs the state callback before it returns; on a dead context it does *)
(*    nothing.                                                             *)
(*  - quit(code) records the code (the last call wins) and the loop        *)
(*    returns it once it observes the request; callbacks already queued    *)
(*    may still run before that.                                           *)
(*  - pa_context_drain() returns NULL when no reply is outstanding;        *)
(*    otherwise its callback runs once every outstanding reply arrived.    *)
(*  - completions are delivered only while the context is READY.           *)
(*  - the server applies a request when it answers it.                     *)
(***************************************************************************)
EXTENDS Integers, Sequences, FiniteSets, TLC

\* ---------------------------------------------------------------- bounds
\* number of distinct stream identifiers the server may hold
MaxRecs == 2
\* number of successive invocations of the program
MaxRuns == 2

Devices == {"A", "B"}
Ids == 1..MaxRecs

\* ------------------------------------------------------- stream-restore info
\* pa_ext_stream_restore_info: name, channel_map, volume, mute, device.
\* The fields other than device are fixed per stream so that each record
\* carries distinct values.
Rec(id, dev) ==
    [name |-> id, channel_map |-> 10 + id, volume |-> 100 + id,
     mute |-> (id % 2 = 0), device |-> dev]

\* the device a record is routed to before the program ran
InitialDevice(id) == IF id % 2 = 1 THEN "A" ELSE "B"

\* server databases: at most one record per stream identifier
InitDBs == {{Rec(i, InitialDevice(i)) : i \in S} : S \in SUBSET Ids}

\* the info pointer passed with the end-of-list marker
NoInfo == [name |-> 0, channel_map |-> 0, volume |-> 0, mute |-> FALSE, device |-> "none"]

\* all orders in which the server may list a database
Orders(db) ==
    {q \in [1..Cardinality(db) -> db] : \A i, j \in 1..Cardinality(db) : q[i] = q[j] => i = j}

\* the record sequences the read callback may be handed: the database in
\* some order, or such a listing repeated (the callback must cope with a
\* stream name that reappears)
Replies(db) ==
    Orders(db) \cup {q \o q : q \in {o \in Orders(db) : o # <<>> /\ 2 * Len(o) <= MaxRecs}}

VARIABLES
    pc,          \* main: "start", "loop" (inside pa_mainloop_run), "done"
    argc,        \* main's argc: 2 when exactly one argument was given
    name,        \* argv[1], the target device
    exitStatus,  \* the process's exit status, -1 while running
    exitPath,    \* how main returned: "none", "usage", "setup", "runfail", "quit"
    ctx,         \* pa_context state
    quitReq,     \* the loop has been asked to quit
    retval,      \* the status of the last quit request
    defaultOp,   \* set-default-sink request: "none","nocreate","inflight","ok","failed"
    defaultArg,  \* the sink name the set-default-sink request carries
    enumOp,      \* stream-restore read: "none","nocreate","inflight","done","failed"
    enumUserdata,\* userdata registered with the read
    writes,      \* the write requests issued, in order
    writeOp,     \* per write: "inflight", "ok", "failed"
    drainOp,     \* "none", "null" (no operation returned), "inflight", "done"
    disconnects, \* number of pa_context_disconnect calls
    out,         \* diagnostics printed
    life,        \* calls that create, use and release the mainloop and the context
    entries,     \* number of calls of set_default_sink
    issuedIn,    \* the context states in which a request was issued
    enumQueue,   \* records of the read reply not yet delivered
    delivered,   \* records delivered to stream_restore_cb
    created,     \* per delivered record: was its write request created
    defaultPos,  \* enumeration callbacks run before the set-default completion, -1 if none yet
    srvDefault,  \* server: default sink
    srvRecords,  \* server: stream-restore database
    run,         \* number of the current invocation
    prev         \* server state left by the previous invocation

progVars == <<ctx, quitReq, retval, defaultOp, defaultArg, enumOp, enumUserdata,
              writes, writeOp, drainOp, disconnects, out, life, entries, issuedIn>>
vars == <<pc, argc, name, exitStatus, exitPath, ctx, quitReq, retval, defaultOp, defaultArg,
          enumOp, enumUserdata, writes, writeOp, drainOp, disconnects, out,
          life, entries, issuedIn,
          enumQueue, delivered, created, defaultPos, srvDefault, srvRecords, run, prev>>

\* the client-side state the callbacks read and write
Cur ==
    [ctx |-> ctx, quitReq |-> quitReq, retval |-> retval, defaultOp |-> defaultOp,
     defaultArg |-> defaultArg, enumOp |-> enumOp, enumUserdata |-> enumUserdata,
     writes |-> writes, writeOp |-> writeOp, drainOp |-> drainOp,
     disconnects |-> disconnects, out |-> out,
     life |-> life, entries |-> entries, issuedIn |-> issuedIn]

Commit(s) ==
    /\ ctx' = s.ctx
    /\ quitReq' = s.quitReq
    /\ retval' = s.retval
    /\ defaultOp' = s.defaultOp
    /\ defaultArg' = s.defaultArg
    /\ enumOp' = s.enumOp
    /\ enumUserdata' = s.enumUserdata
    /\ writes' = s.writes
    /\ writeOp' = s.writeOp
    /\ drainOp' = s.drainOp
    /\ disconnects' = s.disconnects
    /\ out' = s.out
    /\ life' = s.life
    /\ entries' = s.entries
    /\ issuedIn' = s.issuedIn

Fresh ==
    [ctx |-> "Unconnected", quitReq |-> FALSE, retval |-> 0, defaultOp |-> "none",
     defaultArg |-> "none", enumOp |-> "none", enumUserdata |-> "none",
     writes |-> <<>>, writeOp |-> <<>>, drainOp |-> "none",
     disconnects |-> 0, out |-> {},
     life |-> <<>>, entries |-> 0, issuedIn |-> {}]

GoodStates == {"Connecting", "Authorizing", "SettingName", "Ready"}

\* ------------------------------------------------------------ library calls
\* mainloop_api->quit(mainloop_api, code)
quit(s, code) == [s EXCEPT !.quitReq = TRUE, !.retval = code]

printf(s, msg) == [s EXCEPT !.out = @ \cup {msg}]

\* a request was handed to the library while the context was in state s.ctx
issued(s) == [s EXCEPT !.issuedIn = @ \cup {s.ctx}]

\* pa_context_is_pending: a reply is outstanding
pa_context_is_pending(s) ==
    \/ s.defaultOp = "inflight"
    \/ s.enumOp = "inflight"
    \/ \E i \in 1..Len(s.writeOp) : s.writeOp[i] = "inflight"

\* ---------------------------------------------------------------- main.c
success_cb(s, success) ==
    IF ~success THEN quit(printf(s, "error"), 1) ELSE s

set_default_sink(s0, nm, c1, c2) ==
    LET s == [s0 EXCEPT !.entries = @ + 1]
    IN  IF ~c1
        THEN [s |-> printf([s EXCEPT !.defaultOp = "nocreate"], "set_default_sink_null"),
              rc |-> -1]
        ELSE LET s1 == issued([s EXCEPT !.defaultOp = "inflight", !.defaultArg = nm])
             IN  IF ~c2
                 THEN [s |-> printf([s1 EXCEPT !.enumOp = "nocreate"], "read_null"),
                       rc |-> -1]
                 ELSE [s |-> issued([s1 EXCEPT !.enumOp = "inflight",
                                               !.enumUserdata = nm]),
                       rc |-> 0]

\* mutant: the switch has no default case, a failed connection is ignored
context_state_callback_no_default(s, nm, c1, c2) ==
    CASE s.ctx = "Ready" ->
            LET r == set_default_sink(s, nm, c1, c2)
            IN  IF r.rc # 0
                THEN quit(printf(r.s, "set_default_sink_failed"), 1)
                ELSE r.s
      [] s.ctx = "Terminated" -> quit(s, 0)
      [] OTHER -> s

\* mutant: the break after PA_CONTEXT_SETTING_NAME is missing
context_state_callback_falls_through(s, nm, c1, c2) ==
    CASE s.ctx \in {"Connecting", "Authorizing"} -> s
      [] s.ctx \in {"SettingName", "Ready"} ->
            LET r == set_default_sink(s, nm, c1, c2)
            IN  IF r.rc # 0
                THEN quit(printf(r.s, "set_default_sink_failed"), 1)
                ELSE r.s
      [] s.ctx = "Terminated" -> quit(s, 0)
      [] OTHER -> quit(printf(s, "connection_failure"), 1)

\* mutant: PA_CONTEXT_TERMINATED is handled by the default case
context_state_callback_terminated_is_failure(s, nm, c1, c2) ==
    CASE s.ctx \in {"Connecting", "Authorizing", "SettingName"} -> s
      [] s.ctx = "Ready" ->
            LET r == set_default_sink(s, nm, c1, c2)
            IN  IF r.rc # 0
                THEN quit(printf(r.s, "set_default_sink_failed"), 1)
                ELSE r.s
      [] OTHER -> quit(printf(s, "connection_failure"), 1)

\* c1, c2: whether the two requests issued on READY can be created
context_state_callback(s, nm, c1, c2) ==
    CASE s.ctx \in {"Connecting", "Authorizing", "SettingName"} -> s
      [] s.ctx = "Ready" ->
            LET r == set_default_sink(s, nm, c1, c2)
            IN  IF r.rc # 0
                THEN quit(printf(r.s, "set_default_sink_failed"), 1)
                ELSE r.s
      [] s.ctx = "Terminated" -> quit(s, 0)
      [] OTHER -> quit(printf(s, "connection_failure"), 1)

\* pa_context_disconnect(c) with the state callback registered for nm
pa_context_disconnect(s, nm) ==
    LET s1 == [s EXCEPT !.disconnects = @ + 1, !.life = Append(@, "disconnect")]
    IN  IF s1.ctx \in GoodStates
        THEN context_state_callback([s1 EXCEPT !.ctx = "Terminated"], nm, FALSE, FALSE)
        ELSE s1

context_drain_complete(s, nm) ==
    pa_context_disconnect([s EXCEPT !.drainOp = "done"], nm)

\* mutant: no disconnect when pa_context_drain returns NULL
drain_no_fallback(s, nm) ==
    IF ~pa_context_is_pending(s)
    THEN [s EXCEPT !.drainOp = "null"]
    ELSE [s EXCEPT !.drainOp = "inflight"]

\* mutant: disconnect at once, without asking for a drain
drain_immediate(s, nm) ==
    pa_context_disconnect([s EXCEPT !.drainOp = "null"], nm)

drain(s, nm) ==
    IF ~pa_context_is_pending(s)
    THEN pa_context_disconnect([s EXCEPT !.drainOp = "null"], nm)
    ELSE issued([s EXCEPT !.drainOp = "inflight"])

\* mutant: the record is written back with the device it came with
stream_restore_cb_keeps_device(s, nm, info, eol, c) ==
    IF eol # 0
    THEN drain(s, nm)
    ELSE IF ~c
         THEN printf(s, "write_null")
         ELSE [s EXCEPT !.writes = Append(@, info),
                        !.writeOp = Append(@, "inflight")]

\* mutant: the end-of-list marker is ignored
stream_restore_cb_skips_eol(s, nm, info, eol, c) ==
    IF eol # 0
    THEN s
    ELSE IF ~c
         THEN printf(s, "write_null")
         ELSE [s EXCEPT !.writes = Append(@, [info EXCEPT !.device = s.enumUserdata]),
                        !.writeOp = Append(@, "inflight")]

\* mutant: records delivered before the set-default completion are skipped
stream_restore_cb_waits_for_default(s, nm, info, eol, c) ==
    IF eol # 0
    THEN drain(s, nm)
    ELSE IF ~c
         THEN printf(s, "write_null")
         ELSE IF s.defaultOp # "ok"
              THEN s
              ELSE [s EXCEPT !.writes = Append(@, [info EXCEPT !.device = s.enumUserdata]),
                             !.writeOp = Append(@, "inflight")]

\* mutant: the mute flag is inverted instead of copied
stream_restore_cb_inverts_mute(s, nm, info, eol, c) ==
    IF eol # 0
    THEN drain(s, nm)
    ELSE IF ~c
         THEN printf(s, "write_null")
         ELSE [s EXCEPT !.writes = Append(@, [info EXCEPT !.device = s.enumUserdata,
                                                          !.mute = ~info.mute]),
                        !.writeOp = Append(@, "inflight")]

\* mutant: a stream name that was already written is skipped
stream_restore_cb_dedups(s, nm, info, eol, c) ==
    IF eol # 0
    THEN drain(s, nm)
    ELSE IF ~c
         THEN printf(s, "write_null")
         ELSE IF \E i \in 1..Len(s.writes) : s.writes[i].name = info.name
              THEN s
              ELSE issued([s EXCEPT
                      !.writes = Append(@, [info EXCEPT !.device = s.enumUserdata]),
                      !.writeOp = Append(@, "inflight")])

\* mutant: eol is not tested, drain is requested after every callback
stream_restore_cb_drains_each_record(s, nm, info, eol, c) ==
    IF eol # 0
    THEN drain(s, nm)
    ELSE IF ~c
         THEN printf(s, "write_null")
         ELSE drain(issued([s EXCEPT
                      !.writes = Append(@, [info EXCEPT !.device = s.enumUserdata]),
                      !.writeOp = Append(@, "inflight")]), nm)

\* c: whether pa_ext_stream_restore_write returns an operation
stream_restore_cb(s, nm, info, eol, c) ==
    IF eol # 0
    THEN drain(s, nm)
    ELSE LET new_info ==
                 [name |-> info.name, channel_map |-> info.channel_map,
                  volume |-> info.volume, mute |-> info.mute,
                  device |-> s.enumUserdata]
         IN  IF ~c
             THEN printf(s, "write_null")
             ELSE issued([s EXCEPT !.writes = Append(@, new_info),
                                   !.writeOp = Append(@, "inflight")])

\* setup_context(): o is what the library calls return
setup_context(s, o) ==
    CASE o = "no_mainloop" -> [s |-> printf(s, "mainloop_new_failed"), rc |-> -1]
      [] o = "no_context"  ->
            [s |-> printf([s EXCEPT !.life = <<"mainloop_new">>], "context_new_failed"),
             rc |-> -1]
      [] o = "connect_failed" ->
            [s |-> printf([s EXCEPT !.ctx = "Failed",
                                    !.life = <<"mainloop_new", "context_new", "connect">>],
                          "connect_failed"),
             rc |-> -1]
      [] OTHER ->
            [s |-> [s EXCEPT !.ctx = "Connecting",
                             !.life = <<"mainloop_new", "context_new", "connect">>],
             rc |-> 0]

SetupFailures == {"no_mainloop", "no_context", "connect_failed"}

\* main after pa_mainloop_run returned because of a quit request:
\* pa_context_disconnect, pa_context_unref, pa_mainloop_free
main_after_loop(s, nm) ==
    [pa_context_disconnect(s, nm) EXCEPT !.life = @ \o <<"context_unref", "mainloop_free">>]

\* ------------------------------------------------------------------ server
\* a stream-restore write in replace mode
SrvWrite(db, r) == {x \in db : x.name # r.name} \cup {r}

\* the invocation set the default sink and rewrote every record
Successful ==
    /\ pc = "done" /\ exitPath = "quit" /\ exitStatus = 0
    /\ defaultOp = "ok" /\ enumOp = "done"
    /\ Len(writes) = Len(delivered)
    /\ \A i \in 1..Len(writeOp) : writeOp[i] = "ok"

\* ------------------------------------------------------------------- Init
Init ==
    /\ pc = "start"
    /\ argc \in 1..3
    /\ name \in Devices
    /\ exitStatus = -1
    /\ exitPath = "none"
    /\ ctx = Fresh.ctx /\ quitReq = Fresh.quitReq /\ retval = Fresh.retval
    /\ defaultOp = Fresh.defaultOp /\ defaultArg = Fresh.defaultArg
    /\ enumOp = Fresh.enumOp /\ enumUserdata = Fresh.enumUserdata
    /\ writes = <<>> /\ writeOp = <<>> /\ drainOp = Fresh.drainOp
    /\ disconnects = 0 /\ out = {}
    /\ life = <<>> /\ entries = 0 /\ issuedIn = {}
    /\ enumQueue = <<>> /\ delivered = <<>> /\ created = <<>>
    /\ defaultPos = -1
    /\ srvDefault \in Devices
    /\ srvRecords \in InitDBs
    /\ run = 1
    /\ prev = [def |-> "none", recs |-> {}]

envUnchanged == UNCHANGED <<enumQueue, delivered, created, defaultPos, srvDefault, srvRecords>>

\* ---------------------------------------------------------------- actions
\* mutant: the argument count is tested after setup_context()
MainUsage_after_setup ==
    /\ pc = "start"
    /\ argc # 2
    /\ pc' = "done" /\ exitStatus' = 0 /\ exitPath' = "usage"
    /\ Commit(printf(setup_context(Cur, "ok").s, "usage"))
    /\ envUnchanged /\ UNCHANGED <<argc, name, run, prev>>

\* main, argc # 2: usage text, return 0
MainUsage ==
    /\ pc = "start"
    /\ argc # 2
    /\ pc' = "done" /\ exitStatus' = 0 /\ exitPath' = "usage"
    /\ Commit(printf(Cur, "usage"))
    /\ envUnchanged /\ UNCHANGED <<argc, name, run, prev>>

\* main, setup_context() fails: return 1
MainSetupFail ==
    /\ pc = "start"
    /\ argc = 2
    /\ \E o \in SetupFailures :
          LET r == setup_context(Cur, o)
          IN  /\ r.rc # 0
              /\ Commit(printf(r.s, "cant_get_context"))
    /\ pc' = "done" /\ exitStatus' = 1 /\ exitPath' = "setup"
    /\ envUnchanged /\ UNCHANGED <<argc, name, run, prev>>

\* main, setup_context() succeeds: register the state callback, enter the loop
MainRun ==
    /\ pc = "start"
    /\ argc = 2
    /\ LET r == setup_context(Cur, "ok")
       IN  /\ r.rc = 0
           /\ Commit([r.s EXCEPT !.life = Append(@, "run")])
    /\ pc' = "loop"
    /\ envUnchanged /\ UNCHANGED <<argc, name, run, prev, exitStatus, exitPath>>

\* the handshake advances to an intermediate state
Handshake ==
    /\ pc = "loop"
    /\ ctx \in {"Connecting", "Authorizing"}
    /\ LET nxt == IF ctx = "Connecting" THEN "Authorizing" ELSE "SettingName"
       IN  \E c1 \in BOOLEAN, c2 \in BOOLEAN :
               Commit(context_state_callback([Cur EXCEPT !.ctx = nxt], name, c1, c2))
    /\ envUnchanged /\ UNCHANGED <<pc, argc, name, run, prev, exitStatus, exitPath>>

\* the context becomes READY; the server fixes the order of its read reply
ConnReady ==
    /\ pc = "loop"
    /\ ctx = "SettingName"
    /\ \E c1 \in BOOLEAN, c2 \in BOOLEAN :
          LET s == context_state_callback([Cur EXCEPT !.ctx = "Ready"], name, c1, c2)
          IN  /\ Commit(s)
              /\ IF s.enumOp = "inflight"
                 THEN \E q \in Replies(srvRecords) : enumQueue' = q
                 ELSE enumQueue' = <<>>
    /\ UNCHANGED <<delivered, created, defaultPos, srvDefault, srvRecords>>
    /\ UNCHANGED <<pc, argc, name, run, prev, exitStatus, exitPath>>

\* handshake or transport error
ConnFail ==
    /\ pc = "loop"
    /\ ctx \in GoodStates
    /\ Commit(context_state_callback([Cur EXCEPT !.ctx = "Failed"], name, FALSE, FALSE))
    /\ envUnchanged /\ UNCHANGED <<pc, argc, name, run, prev, exitStatus, exitPath>>

\* completion of the set-default-sink request
DeliverDefault ==
    /\ pc = "loop" /\ ctx = "Ready"
    /\ defaultOp = "inflight"
    /\ \E ok \in BOOLEAN :
          /\ Commit(success_cb([Cur EXCEPT !.defaultOp = IF ok THEN "ok" ELSE "failed"], ok))
          /\ srvDefault' = IF ok THEN defaultArg ELSE srvDefault
    /\ defaultPos' = Len(delivered) + (IF enumOp \in {"done", "failed"} THEN 1 ELSE 0)
    /\ UNCHANGED <<enumQueue, delivered, created, srvRecords>>
    /\ UNCHANGED <<pc, argc, name, run, prev, exitStatus, exitPath>>

\* the read delivers one record
DeliverRecord ==
    /\ pc = "loop" /\ ctx = "Ready"
    /\ enumOp = "inflight" /\ enumQueue # <<>>
    /\ \E c \in BOOLEAN :
          /\ Commit(stream_restore_cb(Cur, name, Head(enumQueue), 0, c))
          /\ created' = Append(created, c)
    /\ enumQueue' = Tail(enumQueue)
    /\ delivered' = Append(delivered, Head(enumQueue))
    /\ UNCHANGED <<defaultPos, srvDefault, srvRecords>>
    /\ UNCHANGED <<pc, argc, name, run, prev, exitStatus, exitPath>>

\* the read delivers the end-of-list marker
DeliverEol ==
    /\ pc = "loop" /\ ctx = "Ready"
    /\ enumOp = "inflight" /\ enumQueue = <<>>
    /\ Commit(stream_restore_cb([Cur EXCEPT !.enumOp = "done"], name, NoInfo, 1, FALSE))
    /\ envUnchanged /\ UNCHANGED <<pc, argc, name, run, prev, exitStatus, exitPath>>

\* the server rejects the read: the callback runs once, with eol < 0
DeliverEnumFail ==
    /\ pc = "loop" /\ ctx = "Ready"
    /\ enumOp = "inflight" /\ delivered = <<>>
    /\ Commit(stream_restore_cb([Cur EXCEPT !.enumOp = "failed"], name, NoInfo, -1, FALSE))
    /\ enumQueue' = <<>>
    /\ UNCHANGED <<delivered, created, defaultPos, srvDefault, srvRecords>>
    /\ UNCHANGED <<pc, argc, name, run, prev, exitStatus, exitPath>>

\* completion of a stream-restore write
DeliverWrite ==
    /\ pc = "loop" /\ ctx = "Ready"
    /\ \E i \in 1..Len(writeOp), ok \in BOOLEAN :
          /\ writeOp[i] = "inflight"
          /\ Commit(success_cb([Cur EXCEPT !.writeOp[i] = IF ok THEN "ok" ELSE "failed"], ok))
          /\ srvRecords' = IF ok THEN SrvWrite(srvRecords, writes[i]) ELSE srvRecords
    /\ UNCHANGED <<enumQueue, delivered, created, defaultPos, srvDefault>>
    /\ UNCHANGED <<pc, argc, name, run, prev, exitStatus, exitPath>>

\* the drain completes once no reply is outstanding
DeliverDrain ==
    /\ pc = "loop" /\ ctx = "Ready"
    /\ drainOp = "inflight"
    /\ ~pa_context_is_pending(Cur)
    /\ Commit(context_drain_complete(Cur, name))
    /\ envUnchanged /\ UNCHANGED <<pc, argc, name, run, prev, exitStatus, exitPath>>

\* mutant: the status is read from the loop after pa_context_disconnect
LoopExit_reads_status_late ==
    /\ pc = "loop"
    /\ quitReq
    /\ exitStatus' = main_after_loop(Cur, name).retval
    /\ Commit(main_after_loop(Cur, name))
    /\ pc' = "done" /\ exitPath' = "quit"
    /\ envUnchanged /\ UNCHANGED <<argc, name, run, prev>>

\* pa_mainloop_run observes the quit request; main disconnects and returns ret
LoopExit ==
    /\ pc = "loop"
    /\ quitReq
    /\ exitStatus' = retval
    /\ Commit(main_after_loop(Cur, name))
    /\ pc' = "done" /\ exitPath' = "quit"
    /\ envUnchanged /\ UNCHANGED <<argc, name, run, prev>>

\* pa_mainloop_run fails: main returns 1
LoopFail ==
    /\ pc = "loop"
    /\ ~quitReq
    /\ exitStatus' = 1
    /\ Commit(printf(Cur, "mainloop_run_failed"))
    /\ pc' = "done" /\ exitPath' = "runfail"
    /\ envUnchanged /\ UNCHANGED <<argc, name, run, prev>>

\* after a successful invocation the program is invoked again with the same
\* device name; prev keeps the server state the earlier invocation left
Rerun ==
    /\ pc = "done"
    /\ Successful
    /\ run < MaxRuns
    /\ run' = run + 1
    /\ prev' = [def |-> srvDefault, recs |-> srvRecords]
    /\ pc' = "start" /\ exitStatus' = -1 /\ exitPath' = "none"
    /\ Commit(Fresh)
    /\ enumQueue' = <<>> /\ delivered' = <<>> /\ created' = <<>> /\ defaultPos' = -1
    /\ UNCHANGED <<argc, name, srvDefault, srvRecords>>

Next ==
    \/ MainUsage \/ MainSetupFail \/ MainRun
    \/ Handshake \/ ConnReady \/ ConnFail
    \/ DeliverDefault \/ DeliverRecord \/ DeliverEol \/ DeliverEnumFail
    \/ DeliverWrite \/ DeliverDrain
    \/ LoopExit \/ LoopFail
    \/ Rerun

Spec == Init /\ [][Next]_vars

\* the loop and the service are fair: as long as the loop has something to
\* dispatch (a handshake step, the answer to an issued request, the next
\* callback of the read, the completion of the drain, a quit request to
\* observe) it dispatches one of them.  Connection failures, rejections and
\* a failure of the loop itself are possible but never forced.
Dispatch ==
    \/ Handshake \/ ConnReady
    \/ DeliverDefault \/ DeliverRecord \/ DeliverEol
    \/ DeliverWrite \/ DeliverDrain
    \/ LoopExit

Fairness == WF_vars(Dispatch)

FairSpec == Spec /\ Fairness

\* ----------------------------------------------------------------- claims
\* the record written for a delivered record r
Migrated(r, nm) == [r EXCEPT !.device = nm]

\* the writes expected for the delivered records d whose creation flags are c
RECURSIVE Issued(_, _, _)
Issued(d, c, nm) ==
    IF d = <<>> THEN <<>>
    ELSE (IF Head(c) THEN <<Migrated(Head(d), nm)>> ELSE <<>>)
         \o Issued(Tail(d), Tail(c), nm)

AllCreated == \A i \in 1..Len(created) : created[i]
AllWritesOk == \A i \in 1..Len(writeOp) : writeOp[i] = "ok"
SomeNull ==
    \/ defaultOp = "nocreate" \/ enumOp = "nocreate"
    \/ \E i \in 1..Len(created) : ~created[i]
CallbackFailed ==
    \/ defaultOp = "failed"
    \/ \E i \in 1..Len(writeOp) : writeOp[i] = "failed"
Requests == <<defaultOp, defaultArg, enumOp, writes, drainOp>>

\* C1 as stated: once the end-of-list marker followed N delivered records,
\* exactly N writes were issued and the i-th carries the i-th record with
\* its device replaced by the supplied name.
C1_AsStated ==
    enumOp = "done" =>
        /\ Len(writes) = Len(delivered)
        /\ \A i \in 1..Len(writes) : writes[i] = Migrated(delivered[i], name)

\* C1 amended: in every state the writes issued are, in delivery order, one
\* per delivered record whose write request could be created, each carrying
\* the supplied name as device and the other four fields of its record; so
\* exactly N writes when N records were delivered and no creation failed.
C1_WritesFollowRecords ==
    /\ writes = Issued(delivered, created, name)
    /\ AllCreated => Len(writes) = Len(delivered)
    /\ \A i \in 1..Len(writes) : writes[i].device = name

C1_Witness ==
    /\ enumOp = "done" /\ Len(delivered) = 2
    /\ created = <<FALSE, TRUE>> /\ Len(writes) = 1
    /\ delivered[2].device # name

\* C2: an exit with status 0 after contacting the service means the default
\* sink was set, every delivered record was rewritten by a write that
\* completed successfully and the context is TERMINATED; any failure means
\* exit status 1.
C2_ExitStatusTellsOutcome ==
    pc = "done" =>
        /\ (exitPath = "quit" /\ exitStatus = 0) =>
               /\ defaultOp = "ok"
               /\ Len(writes) = Len(delivered) /\ AllWritesOk
               /\ ctx = "Terminated"
        /\ (\/ exitPath \in {"setup", "runfail"} \/ ctx = "Failed"
            \/ SomeNull \/ CallbackFailed \/ enumOp = "failed") => exitStatus = 1

\* C3: when one of the three requests cannot be created the loop is asked to
\* quit, and the process exits with status 1.
C3_NullRequestIsFatal ==
    SomeNull =>
        /\ pc = "loop" => quitReq
        /\ pc = "done" => exitStatus = 1

\* C4: when the read is answered with a failure the loop is asked to quit
\* with status 1 and the process exits with status 1.
C4_ReadFailureIsFatal ==
    enumOp = "failed" =>
        /\ pc = "loop" => (quitReq /\ retval = 1)
        /\ pc = "done" => exitStatus = 1

\* C5: when a completion callback reported failure the loop has been asked
\* to quit and the exit status is 1, whatever was delivered afterwards.
\* Stated for the runs in which nothing else went wrong (every request was
\* created and the read was not rejected), so that a violation is due to
\* the callback failure alone.
C5_CallbackFailureIsFatal ==
    (CallbackFailed /\ ~SomeNull /\ enumOp # "failed") =>
        /\ pc = "loop" => quitReq
        /\ pc = "done" => exitStatus = 1

\* C6: once the context is FAILED (connect failure in setup, or a failure
\* notification at any point of the loop) no request is issued, the running
\* loop has been asked to quit with status 1, the only step left to the
\* loop is to exit, and the exit status is 1.
C6_ConnectionFailureIsFatal ==
    [][/\ ctx' = "Failed" => Requests' = Requests
       /\ (ctx' = "Failed" /\ pc' = "loop") => (quitReq' /\ retval' = 1)
       /\ (ctx' = "Failed" /\ pc' = "done") => exitStatus' = 1
       /\ (ctx = "Failed" /\ pc = "loop") => (pc' = "done" /\ exitStatus' = 1)]_vars

C6_Witness ==
    /\ pc = "done" /\ exitPath = "quit" /\ ctx = "Failed"
    /\ Len(writes) >= 1 /\ exitStatus = 1

\* C7: when the end-of-list marker is the first callback of the read, no
\* write is issued and drain has been invoked by that callback; if the
\* set-default request succeeded and the connection did not fail, the loop
\* exits with status 0.
C7_EmptyEnumeration ==
    (enumOp = "done" /\ delivered = <<>>) =>
        /\ writes = <<>>
        /\ drainOp # "none"
        /\ (pc = "done" /\ exitPath = "quit" /\ defaultOp = "ok" /\ ctx # "Failed")
               => exitStatus = 0

C7_Witness ==
    /\ pc = "done" /\ enumOp = "done" /\ delivered = <<>>
    /\ defaultOp = "ok" /\ drainOp = "null" /\ exitStatus = 0

\* C8: when every request was created and succeeded and the connection did
\* not fail, then wherever the set-default completion fell among the
\* callbacks of the read (defaultPos = 0 .. N+1), the writes issued are the
\* delivered records with the device replaced, drain was invoked and the
\* exit status is 0.
AllSucceeded ==
    /\ pc = "done" /\ exitPath = "quit" /\ ctx # "Failed"
    /\ defaultOp = "ok" /\ enumOp = "done" /\ AllCreated /\ AllWritesOk

C8_OrderOfCompletionsIrrelevant ==
    \A k \in 0..(Len(delivered) + 1) :
        (AllSucceeded /\ defaultPos = k) =>
            /\ Len(writes) = Len(delivered)
            /\ {writes[i] : i \in 1..Len(writes)}
                 = {Migrated(delivered[i], name) : i \in 1..Len(delivered)}
            /\ drainOp \in {"null", "done"}
            /\ exitStatus = 0

C8_Witness ==
    /\ AllSucceeded /\ Len(delivered) = 2 /\ defaultPos = 1 /\ exitStatus = 0

\* C9: a successful invocation that follows a successful invocation with
\* the same device name leaves the server's default sink and stream-restore
\* database as the earlier one left them.
C9_Idempotent ==
    (run >= 2 /\ Successful) =>
        /\ srvDefault = prev.def
        /\ srvRecords = prev.recs

C9_Witness ==
    /\ run = 2 /\ Successful /\ Cardinality(srvRecords) = 2
    /\ srvDefault = name

\* C10 as stated (second half): the loop never exits unless a callback has
\* called quit.
C10_AsStated ==
    (pc = "done" /\ exitPath \in {"quit", "runfail"}) => quitReq

\* C10 amended: under fairness of the service and the loop a started loop
\* always ends, by a quit request or by a failure of pa_mainloop_run; it
\* returns successfully only after a callback called quit, and when a
\* callback has called quit the loop ends by returning successfully.
C10_LoopEnds ==
    /\ (pc = "loop") ~> (pc = "done")
    /\ [](exitPath = "quit" => quitReq)
    /\ [](exitPath = "runfail" => ~quitReq)

C10_Witness ==
    /\ pc = "done" /\ exitPath = "quit" /\ quitReq /\ retval = 0
    /\ drainOp = "done" /\ Len(writes) = 2

\* number of occurrences of e in the sequence q
Count(q, e) == Cardinality({i \in 1..Len(q) : q[i] = e})

NoWriteInFlight == \A i \in 1..Len(writeOp) : writeOp[i] # "inflight"

\* requests issued whose completion has not been delivered
InFlightCount ==
    (IF defaultOp = "inflight" THEN 1 ELSE 0)
    + (IF enumOp = "inflight" THEN 1 ELSE 0)
    + Cardinality({i \in 1..Len(writeOp) : writeOp[i] = "inflight"})
    + (IF drainOp = "inflight" THEN 1 ELSE 0)

\* the stream identifiers of a sequence of records
Names(q) == [i \in 1..Len(q) |-> q[i].name]

\* C11: on every exit after they were created, the context and the loop
\* object are each released exactly once, and connect, run, disconnect and
\* the releases happen in that order.
C11_ReleasedOnceOnEveryPath ==
    pc = "done" =>
        /\ Count(life, "context_unref") = Count(life, "context_new")
        /\ Count(life, "mainloop_free") = Count(life, "mainloop_new")
        /\ Count(life, "connect") = 1 =>
              \E i, j, k, l, m \in 1..Len(life) :
                  /\ i < j /\ j < k /\ k < l /\ l < m
                  /\ life[i] = "connect" /\ life[j] = "run" /\ life[k] = "disconnect"
                  /\ life[l] = "context_unref" /\ life[m] = "mainloop_free"

\* C12: with an argument count other than one (argc # 2) the process does
\* nothing but exit with status 0: no loop, no context, no request.
C12_UsageExit ==
    argc # 2 =>
        /\ pc \in {"start", "done"}
        /\ life = <<>> /\ ctx = "Unconnected"
        /\ entries = 0 /\ issuedIn = {} /\ disconnects = 0
        /\ Requests = <<"none", "none", "none", <<>>, "none">>
        /\ pc = "done" => (exitStatus = 0 /\ exitPath = "usage")

C12_Witness ==
    /\ argc = 3 /\ pc = "done" /\ exitStatus = 0 /\ "usage" \in out

\* C13 as stated: no write is in flight once a disconnect was issued or the
\* process has exited.
C13_AsStated ==
    (pc = "done" \/ disconnects >= 1) => NoWriteInFlight

\* C13 amended: when the drain controller issues the disconnect (the drain
\* completed, or there was nothing to drain), and therefore whenever the
\* process exits with status 0, every issued write has completed.
C13_DrainWaitsForWrites ==
    (\/ drainOp \in {"null", "done"}
     \/ (pc = "done" /\ exitPath = "quit" /\ exitStatus = 0)) => NoWriteInFlight

C13_Witness ==
    /\ pc = "done" /\ exitStatus = 0 /\ drainOp = "done"
    /\ Len(writes) = 2 /\ NoWriteInFlight

C15_EntryOnceOnReady ==
    [][/\ (entries' # entries /\ pc' # "start") =>
             (entries = 0 /\ entries' = 1 /\ ctx # "Ready" /\ ctx' = "Ready")
       /\ (ctx # "Ready" /\ ctx' = "Ready") => (entries = 0 /\ entries' = 1)
       /\ entries' <= 1]_vars

C15_Witness ==
    /\ pc = "done" /\ entries = 1 /\ disconnects = 2 /\ Len(writes) = 2

\* C16: every request (set-default, read, write, drain) was issued while
\* the context was READY, also those issued after a quit request.
C16_RequestsOnlyWhenReady ==
    /\ issuedIn \subseteq {"Ready"}
    /\ (defaultOp \notin {"none", "nocreate"} \/ enumOp \notin {"none", "nocreate"}
        \/ writes # <<>> \/ drainOp \in {"inflight", "done"}) => issuedIn = {"Ready"}

C16_Witness ==
    /\ defaultOp = "failed" /\ defaultPos = 0 /\ quitReq
    /\ Len(writes) = 2 /\ drainOp = "inflight" /\ issuedIn = {"Ready"}

\* C17 as stated: after the end-of-list marker the stream identifiers of the
\* writes are those of the delivered records, in the same order.
C17_AsStated ==
    enumOp = "done" => Names(writes) = Names(delivered)

\* C17 amended: a write is issued only in the step that delivers its
\* record, and the stream identifiers of the writes are, in order and with
\* repetitions kept, those of the delivered records whose write request
\* could be created.
C17_WritesInDeliveryOrder ==
    [][/\ (writes' # writes /\ pc' # "start") =>
             /\ Len(delivered') = Len(delivered) + 1
             /\ Len(writes') = Len(writes) + 1
             /\ SubSeq(writes', 1, Len(writes)) = writes
             /\ writes'[Len(writes')].name = delivered'[Len(delivered')].name
       /\ Names(writes') = Names(Issued(delivered', created', name'))]_vars

C17_Witness ==
    /\ Len(delivered) = 2 /\ delivered[1].name = delivered[2].name
    /\ Len(writes) = 2 /\ writes[1].name = writes[2].name

\* C18 as stated: the context goes from READY to TERMINATED only in a step
\* in which the drain controller disconnects (drain completed or no drain
\* operation returned), and handling TERMINATED asks the loop to quit with 0.
C18_AsStated ==
    [][/\ (ctx = "Ready" /\ ctx' = "Terminated") =>
             (drainOp' # drainOp /\ drainOp' \in {"null", "done"})
       /\ (ctx # "Terminated" /\ ctx' = "Terminated") => (quitReq' /\ retval' = 0)]_vars

\* C18 amended: the context goes from READY to TERMINATED only by an
\* explicit pa_context_disconnect, issued either by the drain controller or
\* by main after the loop has returned; each time TERMINATED is handled
\* quit(0) is called.
C18_TerminatedOnlyByDisconnect ==
    [][/\ (ctx = "Ready" /\ ctx' = "Terminated") =>
             /\ disconnects' = disconnects + 1
             /\ \/ (drainOp' # drainOp /\ drainOp' \in {"null", "done"})
                \/ (pc = "loop" /\ pc' = "done" /\ quitReq)
       /\ (ctx # "Terminated" /\ ctx' = "Terminated") =>
             (ctx = "Ready" /\ quitReq' /\ retval' = 0)]_vars

C18_Witness ==
    /\ pc = "done" /\ ctx = "Terminated" /\ drainOp = "inflight"
    /\ exitStatus = 1 /\ retval = 0

\* C19 as stated: at most one request is in flight.
C19_AsStated == InFlightCount <= 1

\* C19 amended: several requests can be in flight (set-default and read are
\* issued back to back, a write with each delivered record), but never more
\* than one set-default, one read or drain, and one write per delivered
\* record; the drain is requested only once the read has ended.
C19_InFlightBound ==
    /\ InFlightCount <= 2 + Len(delivered)
    /\ Len(writes) <= Len(delivered)
    /\ drainOp = "inflight" => enumOp \in {"done", "failed"}
    /\ enumOp = "inflight" => drainOp = "none"

C19_Witness ==
    /\ defaultOp = "inflight" /\ enumOp = "inflight"
    /\ Len(writes) = 1 /\ writeOp = <<"inflight">> /\ InFlightCount = 3

\* C20: quit(0) is called only by the step that brings the context to
\* TERMINATED; an exit with status 0 after contacting the service happens
\* only after the read callback got a non-zero eol and a disconnect was
\* issued inside the loop; the status main returns is the one the loop had
\* when it returned, whatever main's own disconnect does afterwards.
C20_ZeroOnlyFromTerminated ==
    [][/\ (quitReq' /\ retval' = 0 /\ ~(quitReq /\ retval = 0)) =>
             (ctx # "Terminated" /\ ctx' = "Terminated")
       /\ (pc = "loop" /\ pc' = "done" /\ exitPath' = "quit") => exitStatus' = retval
       /\ (pc' = "done" /\ exitPath' = "quit" /\ exitStatus' = 0) =>
             /\ enumOp' \in {"done", "failed"}
             /\ drainOp' \in {"null", "done"}
             /\ disconnects' = 2]_vars

C20_Witness ==
    /\ pc = "done" /\ exitPath = "quit" /\ exitStatus = 1
    /\ retval = 0 /\ ctx = "Terminated" /\ disconnects = 1

====
